---------------------------- MODULE Spec2Model ----------------------------
(***************************************************************************)
(* A model of the bin_prot codec of src/src/lib.rs: the BinProtWrite and   *)
(* BinProtRead implementations of the supported shapes, the two framing    *)
(* helpers, and a byte stream they write to and read from.                 *)
(*                                                                         *)
(* Representation.  A byte is a number in 0..255.  A u64, an i64 and an    *)
(* f64 are kept as their 8 little-endian bytes (two's complement for i64), *)
(* so that the full 64-bit width is present.  A String is its UTF-8 byte   *)
(* sequence.  Option<T> is <<>> (None) or <<v>> (Some(v)).  Vec<T> and     *)
(* tuples are sequences.  A map is its set of <<key, value>> entries, with *)
(* pairwise distinct keys, so that equality of maps is equality of entry   *)
(* sets.  A type is a record whose field k names the shape.                *)
(***************************************************************************)
EXTENDS Integers, Sequences, FiniteSets, TLC

VARIABLES
    stream,   \* the bytes of the stream, written at its end and read at pos
    pos,      \* the reader's cursor: the number of bytes consumed
    items,    \* the values written by the library, with the bytes each occupies
    peer,     \* what a peer wrote by hand: "none", "raw", "size" or "map"
    nread,    \* the number of reads made
    op,       \* the last operation
    ty,       \* the type that operation wrote or read
    val,      \* the value it wrote (for a peer's map, the entries written)
    res,      \* the result of the last read
    start     \* the stream offset at which the last operation began

vars == <<stream, pos, items, peer, nread, op, ty, val, res, start>>

---------------------------------------------------------------------------
(* Bytes and fixed-width little-endian fields                              *)

Byte == 0..255

\* the n low bytes of a non-negative number, least significant first
RECURSIVE LEBytes(_, _)
LEBytes(n, k) == IF k = 0 THEN <<>> ELSE <<n % 256>> \o LEBytes(n \div 256, k - 1)

\* k copies of b
Fill(b, k) == [i \in 1..k |-> b]

\* `x as u64` for a usize that the model can hold as a number
U64Of(n) == LEBytes(n, 8)

\* zero extension of a little-endian field to 64 bits
ZeroExtend(bs) == bs \o Fill(0, 8 - Len(bs))

\* sign extension of a little-endian two's complement field to 64 bits
SignExtend(bs) == bs \o Fill(IF bs[Len(bs)] >= 128 THEN 255 ELSE 0, 8 - Len(bs))

\* v < 2^(8k) for a u64 v
FitsUnsigned(v, k) == \A i \in (k + 1)..8 : v[i] = 0

\* -2^(8k-1) <= v < 2^(8k-1) for an i64 v
FitsSigned(v, k) == \A i \in (k + 1)..8 : v[i] = (IF v[k] >= 128 THEN 255 ELSE 0)

IsNegative(v) == v[8] >= 128

\* u64 order
ULess(x, y) == \E i \in 1..8 : x[i] < y[i] /\ \A j \in (i + 1)..8 : x[j] = y[j]

\* i64 order
SLess(x, y) ==
    IF IsNegative(x) # IsNegative(y) THEN IsNegative(x) ELSE ULess(x, y)

\* a u64 as a number when it is below 2^16, else a number no stream reaches
SmallOrHuge(v) == IF FitsUnsigned(v, 2) THEN v[1] + 256 * v[2] ELSE 65536

---------------------------------------------------------------------------
(* Integer codec (mod int): tags and the variable-width forms              *)

CODE_NEG_INT8 == 255
CODE_INT16 == 254
CODE_INT32 == 253
CODE_INT64 == 252

write_nat0(v) ==
    IF FitsUnsigned(v, 1) /\ v[1] < 128 THEN <<v[1]>>
    ELSE IF FitsUnsigned(v, 2) THEN <<CODE_INT16>> \o SubSeq(v, 1, 2)
    ELSE IF FitsUnsigned(v, 4) THEN <<CODE_INT32>> \o SubSeq(v, 1, 4)
    ELSE <<CODE_INT64>> \o v

write_i64(v) ==
    IF FitsUnsigned(v, 1) /\ v[1] < 128 THEN <<v[1]>>
    ELSE IF FitsSigned(v, 1) THEN <<CODE_NEG_INT8>> \o SubSeq(v, 1, 1)
    ELSE IF FitsSigned(v, 2) THEN <<CODE_INT16>> \o SubSeq(v, 1, 2)
    ELSE IF FitsSigned(v, 4) THEN <<CODE_INT32>> \o SubSeq(v, 1, 4)
    ELSE <<CODE_INT64>> \o v

---------------------------------------------------------------------------
(* Types                                                                   *)

TUnit == [k |-> "unit"]
TBool == [k |-> "bool"]
TI64 == [k |-> "i64"]
TNat0 == [k |-> "nat0"]
TF64 == [k |-> "f64"]
TString == [k |-> "string"]
TOption(a) == [k |-> "option", a |-> a]
TVec(a) == [k |-> "vec", a |-> a]
TBTreeMap(a, b) == [k |-> "btreemap", a |-> a, b |-> b]
THashMap(a, b) == [k |-> "hashmap", a |-> a, b |-> b]
TTuple(cs) == [k |-> "tuple", cs |-> cs]
TWithLen(a) == [k |-> "withlen", a |-> a]

IsMap(t) == t.k \in {"btreemap", "hashmap"}

---------------------------------------------------------------------------
(* Writers: binprot_write(t, v) is the set of byte sequences the call may  *)
(* append to the sink.  It is a singleton except where a HashMap is        *)
(* iterated, whose iteration order is arbitrary.                           *)

Cat(A, B) == {x \o y : x \in A, y \in B}

RECURSIVE binprot_write(_, _)

\* a writer of Nat0 that goes through the signed encoding
nat0_write_signed(v) == {write_i64(v)}

\* impl BinProtWrite for Nat0, for i64
nat0_write(v) == {write_nat0(v)}

i64_write(v) == {write_i64(v)}

write_unit(v) == {<<0>>}

write_bool(v) == {<<IF v THEN 1 ELSE 0>>}

write_f64(v) == {v}

write_option(a, v) ==
    IF v = <<>> THEN {<<0>>} ELSE Cat({<<1>>}, binprot_write(a, v[1]))

\* `for v in self.iter() { v.binprot_write(w)? }`: the encodings of the
\* elements in order (the sequence is split in halves to keep the evaluation
\* shallow)
RECURSIVE WriteEach(_, _)
WriteEach(a, vs) ==
    IF vs = <<>> THEN {<<>>}
    ELSE IF Len(vs) = 1 THEN binprot_write(a, vs[1])
    ELSE LET h == Len(vs) \div 2
         IN  Cat(WriteEach(a, SubSeq(vs, 1, h)), WriteEach(a, SubSeq(vs, h + 1, Len(vs))))

write_vec(a, v) == Cat({write_nat0(U64Of(Len(v)))}, WriteEach(a, v))

write_string(v) == {write_nat0(U64Of(Len(v))) \o v}

\* Ord of the key types the model uses as map keys
KeyLess(a, x, y) ==
    CASE a.k = "bool" -> x = FALSE /\ y = TRUE
      [] a.k = "nat0" -> ULess(x, y)
      [] a.k = "i64" -> SLess(x, y)
      [] OTHER -> FALSE

\* the entries of a BTreeMap in the order iter() yields them
RECURSIVE InKeyOrder(_, _)
InKeyOrder(a, m) ==
    IF m = {} THEN <<>>
    ELSE LET e == CHOOSE e \in m : \A f \in m \ {e} : KeyLess(a, e[1], f[1])
         IN  <<e>> \o InKeyOrder(a, m \ {e})

\* every order in which the entries of a HashMap may be iterated
RECURSIVE Orders(_)
Orders(m) ==
    IF m = {} THEN {<<>>}
    ELSE UNION {{<<e>> \o o : o \in Orders(m \ {e})} : e \in m}

RECURSIVE WriteEntries(_, _, _)
WriteEntries(a, b, es) ==
    IF es = <<>> THEN {<<>>}
    ELSE Cat(Cat(binprot_write(a, Head(es)[1]), binprot_write(b, Head(es)[2])),
             WriteEntries(a, b, Tail(es)))

write_btreemap(a, b, v) ==
    Cat({write_nat0(U64Of(Cardinality(v)))}, WriteEntries(a, b, InKeyOrder(a, v)))

write_hashmap(a, b, v) ==
    Cat({write_nat0(U64Of(Cardinality(v)))},
        UNION {WriteEntries(a, b, o) : o \in Orders(v)})

RECURSIVE WriteFields(_, _)
WriteFields(cs, v) ==
    IF cs = <<>> THEN {<<>>}
    ELSE Cat(binprot_write(Head(cs), Head(v)), WriteFields(Tail(cs), Tail(v)))

write_tuple(cs, v) == WriteFields(cs, v)

\* BinProtSize: the number of bytes that writing the value produces (every
\* iteration order of a map yields the same number of bytes)
binprot_size(t, v) == Len(CHOOSE e \in binprot_write(t, v) : TRUE)

write_withlen(a, v) ==
    Cat({write_nat0(U64Of(binprot_size(a, v)))}, binprot_write(a, v))

binprot_write(t, v) ==
    CASE t.k = "unit" -> write_unit(v)
      [] t.k = "bool" -> write_bool(v)
      [] t.k = "i64" -> i64_write(v)
      [] t.k = "nat0" -> nat0_write(v)
      [] t.k = "f64" -> write_f64(v)
      [] t.k = "option" -> write_option(t.a, v)
      [] t.k = "vec" -> write_vec(t.a, v)
      [] t.k = "string" -> write_string(v)
      [] t.k = "btreemap" -> write_btreemap(t.a, t.b, v)
      [] t.k = "hashmap" -> write_hashmap(t.a, t.b, v)
      [] t.k = "tuple" -> write_tuple(t.cs, v)
      [] t.k = "withlen" -> write_withlen(t.a, v)

\* a framing whose size counts the 8 bytes of the size itself
binprot_write_with_size_inclusive(t, v) ==
    Cat({U64Of(binprot_size(t, v) + 8)}, binprot_write(t, v))

\* binprot_write_with_size: the size as an i64, little-endian, then the value
binprot_write_with_size(t, v) ==
    Cat({U64Of(binprot_size(t, v))}, binprot_write(t, v))

---------------------------------------------------------------------------
(* Readers.  A read of the stream s at offset p yields a record: ok, the   *)
(* value (val) or the error (err), and the offset the cursor is left at.   *)
(* After a failed read_exact the cursor is at the end of the stream, as    *)
(* for std::io::Cursor and for a byte slice.                               *)

NoError == [kind |-> "none", byte |-> 0]
IoError == [kind |-> "Io", byte |-> 0]
Utf8Error == [kind |-> "Utf8Error", byte |-> 0]
SameKeyAppearsTwiceInMap == [kind |-> "SameKeyAppearsTwiceInMap", byte |-> 0]
UnexpectedValueForUnit(c) == [kind |-> "UnexpectedValueForUnit", byte |-> c]
UnexpectedValueForBool(c) == [kind |-> "UnexpectedValueForBool", byte |-> c]
UnexpectedValueForOption(c) == [kind |-> "UnexpectedValueForOption", byte |-> c]
MalformedIntTag(c) == [kind |-> "MalformedIntTag", byte |-> c]

Ok(v, p) == [ok |-> TRUE, val |-> v, err |-> NoError, pos |-> p]
Err(e, p) == [ok |-> FALSE, val |-> <<>>, err |-> e, pos |-> p]

read_exact(s, p, n) ==
    IF p + n <= Len(s) THEN Ok(SubSeq(s, p + 1, p + n), p + n)
    ELSE Err(IoError, Len(s))

read_u8(s, p) ==
    IF p < Len(s) THEN Ok(s[p + 1], p + 1) ELSE Err(IoError, Len(s))

\* a fixed-width little-endian field of n bytes, widened to 64 bits
ReadField(s, p, n, signed) ==
    LET r == read_exact(s, p, n)
    IN  IF ~r.ok THEN r
        ELSE Ok(IF signed THEN SignExtend(r.val) ELSE ZeroExtend(r.val), r.pos)

read_nat0(s, p) ==
    LET c == read_u8(s, p)
    IN  IF ~c.ok THEN c
        ELSE IF c.val = CODE_INT16 THEN ReadField(s, c.pos, 2, FALSE)
        ELSE IF c.val = CODE_INT32 THEN ReadField(s, c.pos, 4, FALSE)
        ELSE IF c.val = CODE_INT64 THEN ReadField(s, c.pos, 8, FALSE)
        ELSE IF c.val < 128 THEN Ok(ZeroExtend(<<c.val>>), c.pos)
        ELSE Err(MalformedIntTag(c.val), c.pos)

read_signed(s, p) ==
    LET c == read_u8(s, p)
    IN  IF ~c.ok THEN c
        ELSE IF c.val = CODE_NEG_INT8 THEN ReadField(s, c.pos, 1, TRUE)
        ELSE IF c.val = CODE_INT16 THEN ReadField(s, c.pos, 2, TRUE)
        ELSE IF c.val = CODE_INT32 THEN ReadField(s, c.pos, 4, TRUE)
        ELSE IF c.val = CODE_INT64 THEN ReadField(s, c.pos, 8, TRUE)
        ELSE IF c.val < 128 THEN Ok(ZeroExtend(<<c.val>>), c.pos)
        ELSE Err(MalformedIntTag(c.val), c.pos)

\* std::str::from_utf8: whether the bytes are well-formed UTF-8.  Every byte
\* that is not a continuation byte starts a character: it is a legal first
\* byte, the continuation bytes its length asks for follow, and no further
\* continuation byte follows those.
IsContinuation(b) == b \in 128..191

CharWidth(b) ==
    IF b < 128 THEN 1
    ELSE IF b \in 194..223 THEN 2
    ELSE IF b \in 224..239 THEN 3
    ELSE IF b \in 240..244 THEN 4
    ELSE 0

ValidUtf8(bs) ==
    LET n == Len(bs)
    IN  /\ n > 0 => ~IsContinuation(bs[1])
        /\ \A i \in 1..n :
              ~IsContinuation(bs[i]) =>
                  LET w == CharWidth(bs[i])
                  IN  /\ w > 0
                      /\ i + w - 1 <= n
                      /\ \A j \in (i + 1)..(i + w - 1) : IsContinuation(bs[j])
                      /\ i + w <= n => ~IsContinuation(bs[i + w])
                      /\ bs[i] = 224 => bs[i + 1] >= 160
                      /\ bs[i] = 237 => bs[i + 1] <= 159
                      /\ bs[i] = 240 => bs[i + 1] >= 144
                      /\ bs[i] = 244 => bs[i + 1] <= 143

RECURSIVE binprot_read(_, _, _)

\* impl BinProtRead for Nat0, for i64
nat0_read(s, p) == read_nat0(s, p)

i64_read(s, p) == read_signed(s, p)

read_unit(s, p) ==
    LET c == read_u8(s, p)
    IN  IF ~c.ok THEN c
        ELSE IF c.val = 0 THEN Ok("()", c.pos)
        ELSE Err(UnexpectedValueForUnit(c.val), c.pos)

read_bool(s, p) ==
    LET c == read_u8(s, p)
    IN  IF ~c.ok THEN c
        ELSE IF c.val = 0 THEN Ok(FALSE, c.pos)
        ELSE IF c.val = 1 THEN Ok(TRUE, c.pos)
        ELSE Err(UnexpectedValueForBool(c.val), c.pos)

read_f64(s, p) == read_exact(s, p, 8)

\* a reader of Option that takes the discriminants the wrong way round
read_option_swapped(a, s, p) ==
    LET c == read_u8(s, p)
    IN  IF ~c.ok THEN c
        ELSE IF c.val = 1 THEN Ok(<<>>, c.pos)
        ELSE IF c.val = 0
             THEN LET v == binprot_read(a, s, c.pos)
                  IN  IF ~v.ok THEN v ELSE Ok(<<v.val>>, v.pos)
        ELSE Err(UnexpectedValueForOption(c.val), c.pos)

\* a reader of Option that takes every non-zero discriminant for Some
read_option_nonzero(a, s, p) ==
    LET c == read_u8(s, p)
    IN  IF ~c.ok THEN c
        ELSE IF c.val = 0 THEN Ok(<<>>, c.pos)
        ELSE LET v == binprot_read(a, s, c.pos)
             IN  IF ~v.ok THEN v ELSE Ok(<<v.val>>, v.pos)

read_option(a, s, p) ==
    LET c == read_u8(s, p)
    IN  IF ~c.ok THEN c
        ELSE IF c.val = 0 THEN Ok(<<>>, c.pos)
        ELSE IF c.val = 1
             THEN LET v == binprot_read(a, s, c.pos)
                  IN  IF ~v.ok THEN v ELSE Ok(<<v.val>>, v.pos)
        ELSE Err(UnexpectedValueForOption(c.val), c.pos)

\* The number of times the body of `for _i in 0..len` is entered when the
\* loop reads from offset p: every successful read of a value takes at least
\* one byte, so a loop of more iterations than bytes left fails no later than
\* in the iteration after the last byte.
Iterations(len, s, p) ==
    IF SmallOrHuge(len) <= Len(s) - p THEN SmallOrHuge(len) ELSE Len(s) - p + 1

\* an iteration that leaves out the element that fails to decode
ReadItem_skipping(a, s, st) ==
    LET item == binprot_read(a, s, st.pos)
    IN  IF ~item.ok THEN Ok(st.val, item.pos) ELSE Ok(Append(st.val, item.val), item.pos)

\* one iteration of the loop of Vec: st is the result so far
ReadItem(a, s, st) ==
    LET item == binprot_read(a, s, st.pos)
    IN  IF ~item.ok THEN item ELSE Ok(Append(st.val, item.val), item.pos)

\* n iterations from st, ended by the first failure (the iterations are
\* split in halves to keep the evaluation shallow)
RECURSIVE ReadItems(_, _, _, _)
ReadItems(a, s, st, n) ==
    IF ~st.ok \/ n = 0 THEN st
    ELSE IF n = 1 THEN ReadItem(a, s, st)
    ELSE ReadItems(a, s, ReadItems(a, s, st, n \div 2), n - n \div 2)

\* a reader of Vec whose loop runs once too often (`0..=len`)
read_vec_inclusive(a, s, p) ==
    LET len == read_nat0(s, p)
    IN  IF ~len.ok THEN len
        ELSE ReadItems(a, s, Ok(<<>>, len.pos), Iterations(len.val, s, len.pos) + 1)

read_vec(a, s, p) ==
    LET len == read_nat0(s, p)
    IN  IF ~len.ok THEN len
        ELSE ReadItems(a, s, Ok(<<>>, len.pos), Iterations(len.val, s, len.pos))

\* res.insert(k, v): the map after the insertion (the entry of an equal key
\* is replaced) and whether an entry was replaced
Insert(m, k, v) ==
    [map |-> {e \in m : e[1] # k} \cup {<<k, v>>},
     is_some |-> \E e \in m : e[1] = k]

\* an iteration that drops the result of insert: a repeated key overwrites
ReadEntry_overwriting(a, b, s, st) ==
    LET k == binprot_read(a, s, st.pos)
    IN  IF ~k.ok THEN k
        ELSE LET v == binprot_read(b, s, k.pos)
             IN  IF ~v.ok THEN v
                 ELSE Ok(Insert(st.val, k.val, v.val).map, v.pos)

\* one iteration of the loop of a map: st is the result so far
ReadEntry(a, b, s, st) ==
    LET k == binprot_read(a, s, st.pos)
    IN  IF ~k.ok THEN k
        ELSE LET v == binprot_read(b, s, k.pos)
             IN  IF ~v.ok THEN v
                 ELSE LET ins == Insert(st.val, k.val, v.val)
                      IN  IF ins.is_some
                          THEN Err(SameKeyAppearsTwiceInMap, v.pos)
                          ELSE Ok(ins.map, v.pos)

RECURSIVE ReadEntries(_, _, _, _, _)
ReadEntries(a, b, s, st, n) ==
    IF ~st.ok \/ n = 0 THEN st
    ELSE IF n = 1 THEN ReadEntry(a, b, s, st)
    ELSE ReadEntries(a, b, s, ReadEntries(a, b, s, st, n \div 2), n - n \div 2)

\* a reader of BTreeMap that takes only keys arriving in ascending order
read_btreemap_ascending(a, b, s, p) ==
    LET len == read_nat0(s, p)
        r == IF ~len.ok THEN len
             ELSE ReadEntries(a, b, s, Ok({}, len.pos), Iterations(len.val, s, len.pos))
        first == binprot_read(a, s, len.pos)
        second == binprot_read(a, s, binprot_read(b, s, first.pos).pos)
    IN  IF r.ok /\ Cardinality(r.val) >= 2 /\ KeyLess(a, second.val, first.val)
        THEN Err(SameKeyAppearsTwiceInMap, r.pos)
        ELSE r

read_btreemap(a, b, s, p) ==
    LET len == read_nat0(s, p)
    IN  IF ~len.ok THEN len
        ELSE ReadEntries(a, b, s, Ok({}, len.pos), Iterations(len.val, s, len.pos))

read_hashmap(a, b, s, p) ==
    LET len == read_nat0(s, p)
    IN  IF ~len.ok THEN len
        ELSE ReadEntries(a, b, s, Ok({}, len.pos), Iterations(len.val, s, len.pos))

\* a reader of String that replaces what is no UTF-8 (from_utf8_lossy)
read_string_lossy(s, p) ==
    LET len == read_nat0(s, p)
    IN  IF ~len.ok THEN len
        ELSE LET buf == read_exact(s, len.pos, SmallOrHuge(len.val))
             IN  IF ~buf.ok THEN buf
                 ELSE IF ~ValidUtf8(buf.val) THEN Ok(<<239, 191, 189>>, buf.pos)
                 ELSE Ok(buf.val, buf.pos)

read_string(s, p) ==
    LET len == read_nat0(s, p)
    IN  IF ~len.ok THEN len
        ELSE LET buf == read_exact(s, len.pos, SmallOrHuge(len.val))
             IN  IF ~buf.ok THEN buf
                 ELSE IF ~ValidUtf8(buf.val) THEN Err(Utf8Error, buf.pos)
                 ELSE Ok(buf.val, buf.pos)

RECURSIVE ReadFields(_, _, _, _)
ReadFields(cs, s, p, v) ==
    IF cs = <<>> THEN Ok(v, p)
    ELSE LET f == binprot_read(Head(cs), s, p)
         IN  IF ~f.ok THEN f
             ELSE ReadFields(Tail(cs), s, f.pos, Append(v, f.val))

read_tuple(cs, s, p) == ReadFields(cs, s, p, <<>>)

read_withlen(a, s, p) ==
    LET len == read_nat0(s, p)
    IN  IF ~len.ok THEN len ELSE binprot_read(a, s, len.pos)

binprot_read(t, s, p) ==
    CASE t.k = "unit" -> read_unit(s, p)
      [] t.k = "bool" -> read_bool(s, p)
      [] t.k = "i64" -> i64_read(s, p)
      [] t.k = "nat0" -> nat0_read(s, p)
      [] t.k = "f64" -> read_f64(s, p)
      [] t.k = "option" -> read_option(t.a, s, p)
      [] t.k = "vec" -> read_vec(t.a, s, p)
      [] t.k = "string" -> read_string(s, p)
      [] t.k = "btreemap" -> read_btreemap(t.a, t.b, s, p)
      [] t.k = "hashmap" -> read_hashmap(t.a, t.b, s, p)
      [] t.k = "tuple" -> read_tuple(t.cs, s, p)
      [] t.k = "withlen" -> read_withlen(t.a, s, p)

\* binprot_read_with_size: the i64 size is read and dropped
binprot_read_with_size(t, s, p) ==
    LET len == read_exact(s, p, 8)
    IN  IF ~len.ok THEN len ELSE binprot_read(t, s, len.pos)

---------------------------------------------------------------------------
(* The values and types the model explores                                 *)

MaxVecLen == 2
MaxStrLen == 2
LongLen == 128
MaxWrites == 2
MaxTail == 1
MaxRaw == 3
MaxFramed == 2
MaxDeclared == 1
MaxPeerEntries == 3

\* all sequences over S of length at most n
RECURSIVE SeqsUpTo(_, _)
SeqsUpTo(S, n) ==
    IF n = 0 THEN {<<>>}
    ELSE LET shorter == SeqsUpTo(S, n - 1)
         IN  shorter \cup {Append(q, x) : q \in {r \in shorter : Len(r) = n - 1}, x \in S}

Nat0Values ==
    {U64Of(0), U64Of(1), U64Of(127), U64Of(128), U64Of(32768), U64Of(65535),
     U64Of(65536), <<255, 255, 255, 255, 0, 0, 0, 0>>,
     <<0, 0, 0, 0, 1, 0, 0, 0>>, Fill(255, 8)}

I64Values ==
    {U64Of(0), U64Of(127), U64Of(128), U64Of(32767), U64Of(32768),
     <<255, 255, 255, 127, 0, 0, 0, 0>>, <<0, 0, 0, 128, 0, 0, 0, 0>>,
     Fill(255, 7) \o <<127>>,
     Fill(255, 8), <<128>> \o Fill(255, 7), <<127>> \o Fill(255, 7),
     <<0, 128>> \o Fill(255, 6), <<255, 127>> \o Fill(255, 6),
     <<0, 0, 0, 128>> \o Fill(255, 4), <<255, 255, 255, 127>> \o Fill(255, 4),
     Fill(0, 7) \o <<128>>}

\* the bit patterns of 0.0, 1.0 and of a NaN
F64Values ==
    {Fill(0, 8), Fill(0, 6) \o <<240, 63>>, Fill(0, 6) \o <<248, 127>>}

\* bytes of the characters "A" (0x41) and U+0080 (0xC2 0x80)
TextBytes == {65, 194, 128}

StringValues ==
    {q \in SeqsUpTo(TextBytes, MaxStrLen) : ValidUtf8(q)} \cup {Fill(65, LongLen)}

\* the values of a type; inside a composite the integers are a sample
RECURSIVE Values(_, _)
RECURSIVE TupleValues(_)
TupleValues(cs) ==
    IF cs = <<>> THEN {<<>>}
    ELSE {<<x>> \o rest : x \in Values(Head(cs), TRUE), rest \in TupleValues(Tail(cs))}

MapValues(a, b) ==
    LET entries == Values(a, TRUE) \X Values(b, TRUE)
    IN  {m \in SUBSET entries : \A e \in m, f \in m : e[1] = f[1] => e = f}

Values(t, inner) ==
    CASE t.k = "unit" -> {"()"}
      [] t.k = "bool" -> BOOLEAN
      [] t.k = "i64" ->
            IF inner THEN {U64Of(1), <<127>> \o Fill(255, 7)}
            ELSE I64Values
      [] t.k = "nat0" ->
            IF inner THEN {U64Of(128), <<0, 0, 0, 0, 1, 0, 0, 0>>}
            ELSE Nat0Values
      [] t.k = "f64" -> F64Values
      [] t.k = "string" ->
            IF inner THEN {<<>>, <<194, 128>>} ELSE StringValues
      [] t.k = "option" -> {<<>>} \cup {<<x>> : x \in Values(t.a, TRUE)}
      [] t.k = "vec" ->
            SeqsUpTo(Values(t.a, TRUE), MaxVecLen)
                \cup (IF t.a.k = "unit" /\ ~inner THEN {Fill("()", LongLen)} ELSE {})
      [] t.k \in {"btreemap", "hashmap"} -> MapValues(t.a, t.b)
      [] t.k = "tuple" -> TupleValues(t.cs)
      [] t.k = "withlen" -> Values(t.a, inner)

\* the fields of the tuples of the model: arity n is the first n of them
Fields == <<TNat0, TUnit, TBool, TUnit, TUnit, TUnit, TUnit, TUnit, TOption(TUnit)>>

TupleTypes == {TTuple(SubSeq(Fields, 1, n)) : n \in 1..9}

Types ==
    {TUnit, TBool, TI64, TNat0, TF64, TString,
     TOption(TBool), TOption(TOption(TBool)), TOption(TI64),
     TVec(TBool), TVec(TUnit), TVec(TNat0), TVec(TString),
     TBTreeMap(TBool, TBool), TBTreeMap(TI64, TUnit), TBTreeMap(TNat0, TBool),
     THashMap(TBool, TBool), THashMap(TNat0, TBool), THashMap(TI64, TOption(TBool)),
     TWithLen(TBool), TWithLen(TVec(TBool)), TWithLen(TString),
     TWithLen(THashMap(TNat0, TBool)), TVec(TWithLen(TBool))}
        \cup TupleTypes

\* the values of each type that the writers are given
ValuesOf == [t \in Types |-> Values(t, FALSE)]

\* the types of the values written after the first one
FollowTypes == {TOption(TBool)}

\* the types a peer's frame is read as
FrameTypes ==
    {TUnit, TBool, TNat0, TString, TOption(TBool), TVec(TBool),
     TBTreeMap(TBool, TBool), TWithLen(TBool), TTuple(SubSeq(Fields, 1, 3))}

\* the bytes a peer writes by hand: 0, 1, an illegal discriminant, a
\* continuation byte, the first byte of U+0080, and two integer tags
RawBytes == {0, 1, 2, 128, 194, CODE_INT16, CODE_NEG_INT8}

\* the bytes that follow a written value in the stream
TailBytes == {0, CODE_NEG_INT8}

\* the key and value types of the maps a peer writes by hand
PeerMaps == {<<TBool, TBool>>, <<TNat0, TBool>>, <<TI64, TUnit>>}

\* the entry sequences a peer writes: keys may repeat, in any order
PeerEntries ==
    [m \in PeerMaps |->
        SeqsUpTo(Values(m[1], TRUE) \X Values(m[2], TRUE), MaxPeerEntries)]

---------------------------------------------------------------------------
(* The stream, its writers and its reader                                  *)

Init ==
    /\ stream = <<>>
    /\ pos = 0
    /\ items = <<>>
    /\ peer = "none"
    /\ nread = 0
    /\ op = "init"
    /\ ty = TUnit
    /\ val = <<>>
    /\ res = Ok(<<>>, 0)
    /\ start = 0

CanWrite(t) ==
    /\ peer = "none"
    /\ nread = 0
    /\ Len(items) < MaxWrites
    /\ items # <<>> => t \in FollowTypes

Written(t, v, e, framed, name) ==
    /\ stream' = stream \o e
    /\ items' = Append(items, [ty |-> t, val |-> v, from |-> Len(stream),
                               to |-> Len(stream) + Len(e), framed |-> framed])
    /\ op' = name
    /\ ty' = t
    /\ val' = v
    /\ start' = Len(stream)
    /\ UNCHANGED <<pos, peer, nread, res>>

\* v.binprot_write(&mut stream)
Write(t) ==
    /\ CanWrite(t)
    /\ \E v \in ValuesOf[t] :
          \E e \in binprot_write(t, v) : Written(t, v, e, FALSE, "write")

\* binprot_write_with_size(&v, &mut stream)
WriteWithSize(t) ==
    /\ CanWrite(t)
    /\ \E v \in ValuesOf[t] :
          \E e \in binprot_write_with_size(t, v) :
             Written(t, v, e, TRUE, "write_with_size")

Put(bytes, who, name, t, v) ==
    /\ stream' = stream \o bytes
    /\ peer' = who
    /\ op' = name
    /\ ty' = t
    /\ val' = v
    /\ start' = Len(stream)
    /\ UNCHANGED <<pos, items, nread, res>>

\* a peer appends one byte: any byte as the only byte of a stream, a byte of
\* RawBytes in a longer one, after a size header or after a written value
PutByte(b) ==
    /\ nread = 0
    /\ \/ /\ peer = "none" /\ items = <<>>
          /\ Put(<<b>>, "raw", "put", TUnit, <<>>)
       \/ /\ peer = "raw" /\ items = <<>>
          /\ Len(stream) < MaxRaw
          /\ b \in RawBytes /\ stream[1] \in RawBytes
          /\ Put(<<b>>, "raw", "put", TUnit, <<>>)
       \/ /\ peer = "size"
          /\ Len(stream) < 8 + MaxFramed
          /\ b \in RawBytes
          /\ Put(<<b>>, "size", "put", TUnit, <<>>)
       \/ /\ peer \in {"none", "tail"} /\ Len(items) = 1
          /\ Len(stream) < items[1].to + MaxTail
          /\ b \in TailBytes
          /\ Put(<<b>>, "tail", "put", TUnit, <<>>)

\* a peer starts a stream with the 8-byte size header of a frame
PutSize(d) ==
    /\ peer = "none" /\ items = <<>> /\ nread = 0
    /\ Put(U64Of(d), "size", "put_size", TUnit, <<>>)

\* a peer writes a map by hand: the count, then the entries in the order es
PutEntries(a, b) ==
    /\ peer = "none" /\ items = <<>> /\ nread = 0
    /\ \E es \in PeerEntries[<<a, b>>] :
          \E e \in Cat({write_nat0(U64Of(Len(es)))}, WriteEntries(a, b, es)) :
             Put(e, "map", "put_entries", TBTreeMap(a, b), es)

Read(t, r, name) ==
    /\ res' = r
    /\ pos' = r.pos
    /\ nread' = nread + 1
    /\ op' = name
    /\ ty' = t
    /\ start' = pos
    /\ UNCHANGED <<stream, items, peer, val>>

\* the reader reads the next written value with the type and the framing it
\* was written with
ReadBack ==
    /\ nread < Len(items)
    /\ LET it == items[nread + 1]
       IN  IF it.framed
           THEN Read(it.ty, binprot_read_with_size(it.ty, stream, pos), "read_with_size")
           ELSE Read(it.ty, binprot_read(it.ty, stream, pos), "read")

\* T::binprot_read(&mut stream) on a stream a peer wrote by hand
ReadAs(t) ==
    /\ nread = 0
    /\ \/ peer = "raw"
       \/ peer = "map" /\ IsMap(t) /\ t.a = ty.a /\ t.b = ty.b
    /\ Read(t, binprot_read(t, stream, pos), "read")

\* binprot_read_with_size::<_, T>(&mut stream) on a peer's frame
ReadWithSizeAs(t) ==
    /\ nread = 0
    /\ peer = "size"
    /\ Read(t, binprot_read_with_size(t, stream, pos), "read_with_size")

Next ==
    \/ \E t \in Types : Write(t)
    \/ \E t \in Types : WriteWithSize(t)
    \/ \E b \in Byte : PutByte(b)
    \/ \E d \in 0..MaxDeclared : PutSize(d)
    \/ \E m \in PeerMaps : PutEntries(m[1], m[2])
    \/ ReadBack
    \/ \E t \in Types : ReadAs(t)
    \/ \E t \in FrameTypes : ReadWithSizeAs(t)

Spec == Init /\ [][Next]_vars

---------------------------------------------------------------------------
(* Properties                                                              *)

\* the last operation read back a value the library wrote
ReadBackDone == nread >= 1 /\ items # <<>> /\ op \in {"read", "read_with_size"}

\* the written value that the last read was meant to read
Item == items[nread]

\* the last operation read a stream a peer wrote by hand
ReadAsDone == nread = 1 /\ items = <<>> /\ op \in {"read", "read_with_size"}

\* C1: binprot_read on the bytes binprot_write produced for a value of a
\* supported type succeeds and returns an equal value (maps being equal when
\* their entry sets are).
C1_RoundTrip ==
    (ReadBackDone /\ op = "read" /\ Item.ty.k # "f64")
        => (res.ok /\ res.val = Item.val)

C1_Witness ==
    /\ ReadBackDone /\ op = "read" /\ res.ok /\ peer = "none"
    /\ Item.ty = THashMap(TI64, TOption(TBool))
    /\ Cardinality(res.val) = 2
    /\ \E e \in res.val : e[2] # <<>>

\* C2: a successful binprot_read of a written value leaves the cursor exactly
\* at the end of that value's bytes, whatever follows them, so that values
\* written back to back are read back in the order written.
C2_ExactConsumption ==
    (ReadBackDone /\ op = "read" /\ res.ok)
        => /\ start = Item.from
           /\ pos = Item.to
           /\ res.val = Item.val

C2_Witness ==
    /\ ReadBackDone /\ op = "read" /\ res.ok
    /\ nread = 2 /\ items[1].ty = TVec(TString) /\ Len(items[1].val) = 2
    /\ items[2].val = <<TRUE>>
    /\ pos = Len(stream)

\* C2, second witness: bytes that are no part of the value follow it
C2_TailWitness ==
    /\ ReadBackDone /\ op = "read" /\ res.ok /\ peer = "tail"
    /\ ty = TVec(TBool) /\ Len(res.val) = 2 /\ pos < Len(stream)

\* the last operation read, as a map, a stream of entries a peer wrote
PeerMapRead == ReadAsDone /\ peer = "map" /\ op = "read"

\* two of the entries have equal keys
HasRepeatedKey(es) ==
    \E i \in DOMAIN es : \E j \in DOMAIN es : i < j /\ es[i][1] = es[j][1]

\* C3: binprot_read of a BTreeMap or HashMap from a stream whose entries hold
\* two entries of equal keys, at any two positions and with equal or
\* different values, fails with SameKeyAppearsTwiceInMap; no map is returned.
C3_DuplicateKeyRejected ==
    (PeerMapRead /\ HasRepeatedKey(val))
        => (~res.ok /\ res.err = [kind |-> "SameKeyAppearsTwiceInMap", byte |-> 0])

C3_Witness ==
    /\ PeerMapRead /\ ty.k = "hashmap" /\ Len(val) = 3
    /\ val[1][1] = val[3][1] /\ val[1][2] # val[3][2] /\ val[2][1] # val[1][1]
    /\ ~res.ok

\* C10: binprot_read of a BTreeMap or HashMap from a stream that declares n
\* entries and carries n entries of pairwise distinct keys succeeds with the
\* map of exactly those entries, in whatever order they arrive; hence every
\* permutation of the entries decodes to an equal map.
C10_MapOrderIndependent ==
    (PeerMapRead /\ ~HasRepeatedKey(val))
        => /\ res.ok
           /\ res.val = {val[i] : i \in DOMAIN val}
           /\ pos = Len(stream)

C10_Witness ==
    /\ PeerMapRead /\ ty = TBTreeMap(TNat0, TBool) /\ Len(val) = 2
    /\ ULess(val[2][1], val[1][1])
    /\ res.ok /\ Cardinality(res.val) = 2

\* the last operation decoded a stream of raw bytes a peer wrote
RawRead == ReadAsDone /\ peer = "raw" /\ op = "read"

\* C4: binprot_read of unit, of bool and of Option<T> fails on every first
\* byte c that is no discriminant of the type (not 0 for unit, neither 0 nor
\* 1 for bool and Option) with the error of the type carrying c, and no byte
\* after c is read.
C4_InvalidDiscriminantRejected ==
    (RawRead /\ stream # <<>>) =>
        LET c == stream[1]
            Rejected(kind) ==
                ~res.ok /\ res.err = [kind |-> kind, byte |-> c] /\ pos = 1
        IN  /\ (ty.k = "unit" /\ c # 0) => Rejected("UnexpectedValueForUnit")
            /\ (ty.k = "bool" /\ c \notin {0, 1}) => Rejected("UnexpectedValueForBool")
            /\ (ty.k = "option" /\ c \notin {0, 1}) => Rejected("UnexpectedValueForOption")

C4_Witness ==
    /\ RawRead /\ ty = TOption(TBool) /\ stream = <<2, 1, 0>>
    /\ ~res.ok /\ res.err.byte = 2 /\ pos = 1

\* the bytes the last write appended
Out == SubSeq(stream, start + 1, Len(stream))

\* the number a little-endian 64-bit field below 2^16 stands for, else -1
Field64(bs) ==
    IF \A i \in 3..8 : bs[i] = 0 THEN bs[1] + 256 * bs[2] ELSE -1

\* C5: binprot_write_with_size of a value whose encoding takes N bytes writes
\* 8 + N bytes: N as a little-endian 64-bit integer, then the bytes that
\* binprot_write writes; binprot_write of WithLen(v) writes the nat0 encoding
\* of N, then the same N bytes.
C5_FramingOnWrite ==
    /\ op = "write_with_size" =>
          \E e \in binprot_write(ty, val) :
             /\ Len(Out) = 8 + Len(e)
             /\ Field64(SubSeq(Out, 1, 8)) = Len(e)
             /\ SubSeq(Out, 9, Len(Out)) = e
    /\ (op = "write" /\ ty.k = "withlen") =>
          \E e \in binprot_write(ty.a, val) :
             Out = write_nat0(U64Of(Len(e))) \o e

C5_Witness ==
    /\ op = "write_with_size" /\ ty = TString /\ Len(val) >= 128
    /\ Len(Out) = 8 + 3 + Len(val)
    /\ Out[1] = (3 + Len(val)) /\ Out[9] = CODE_INT16

\* C5, second witness: the length-wrapped form of a map of two entries
C5_WithLenWitness ==
    /\ op = "write" /\ ty = TWithLen(THashMap(TNat0, TBool))
    /\ Cardinality(val) = 2 /\ Out[1] = Len(Out) - 1

\* the length a frame's size header or a WithLen prefix declares, and the
\* offset at which the payload begins
DeclaredLength ==
    IF op = "read_with_size" THEN Field64(SubSeq(stream, 1, 8))
    ELSE SmallOrHuge(read_nat0(stream, 0).val)

PayloadStart ==
    IF op = "read_with_size" THEN 8 ELSE read_nat0(stream, 0).pos

\* C6: whenever binprot_read of WithLen<T>, or binprot_read_with_size,
\* succeeds, the length in the prefix is the number of payload bytes the
\* decoder consumed after the prefix.
C6_DeclaredLengthHonoured ==
    (ReadAsDone /\ res.ok /\ (op = "read_with_size" \/ ty.k = "withlen"))
        => pos - PayloadStart = DeclaredLength

\* the canonical form of section 4.1, by the ranges of the value
Canonical(n) ==
    IF ULess(n, U64Of(128)) THEN <<n[1]>>
    ELSE IF ULess(n, U64Of(65536)) THEN <<254, n[1], n[2]>>
    ELSE IF ULess(n, <<0, 0, 0, 0, 1, 0, 0, 0>>) THEN <<253, n[1], n[2], n[3], n[4]>>
    ELSE <<252>> \o n

StartsWith(bs, prefix) ==
    Len(bs) >= Len(prefix) /\ SubSeq(bs, 1, Len(prefix)) = prefix

\* C7: binprot_write of Nat0(n) uses the narrowest sufficient form (0 is
\* 0x00, 127 is 0x7F, 128 is 0xFE 0x80 0x00, 65536 is 0xFD 0x00 0x00 0x01
\* 0x00), and so does the length or count prefix of a sequence, a string, a
\* map and a WithLen.
C7_CanonicalWidth ==
    op = "write" =>
        /\ ty.k = "nat0" =>
              /\ Out = Canonical(val)
              /\ val = U64Of(0) => Out = <<0>>
              /\ val = U64Of(127) => Out = <<127>>
              /\ val = U64Of(128) => Out = <<254, 128, 0>>
              /\ val = U64Of(65536) => Out = <<253, 0, 0, 1, 0>>
        /\ ty.k \in {"vec", "string"} => StartsWith(Out, Canonical(U64Of(Len(val))))
        /\ IsMap(ty) => StartsWith(Out, Canonical(U64Of(Cardinality(val))))
        /\ ty.k = "withlen" =>
              \E n \in 0..Len(Out) :
                 /\ StartsWith(Out, Canonical(U64Of(n)))
                 /\ Len(Out) = Len(Canonical(U64Of(n))) + n

C7_Witness ==
    /\ op = "write" /\ ty = TNat0 /\ val = <<255, 255, 255, 255, 0, 0, 0, 0>>
    /\ stream = <<253, 255, 255, 255, 255>>

\* C7, second witness: a count of 128 elements takes the 2-byte form
C7_CountWitness ==
    /\ op = "write" /\ ty = TVec(TUnit) /\ Len(val) >= 128
    /\ SubSeq(stream, 1, 3) = <<254, Len(val), 0>>

\* C8: binprot_read of String reads the nat0 length L and L bytes; if these
\* are not valid UTF-8 it fails with the text-encoding error, and if they are
\* it returns exactly them; no String is returned for an invalid payload.
C8_Utf8Validated ==
    (RawRead /\ ty.k = "string") =>
        LET len == read_nat0(stream, 0)
            L == SmallOrHuge(len.val)
            payload == SubSeq(stream, len.pos + 1, len.pos + L)
        IN  /\ res.ok => ValidUtf8(res.val)
            /\ (len.ok /\ len.pos + L <= Len(stream)) =>
                  IF ValidUtf8(payload)
                  THEN res.ok /\ res.val = payload /\ pos = len.pos + L
                  ELSE ~res.ok /\ res.err = [kind |-> "Utf8Error", byte |-> 0]
                               /\ pos = len.pos + L

C8_Witness ==
    /\ RawRead /\ ty = TString /\ stream = <<2, 194, 0>>
    /\ ~res.ok /\ res.err.kind = "Utf8Error"

\* C8, second witness: a valid two-byte character is returned as it is
C8_ValidWitness ==
    /\ RawRead /\ ty = TString /\ stream = <<2, 194, 128>>
    /\ res.ok /\ res.val = <<194, 128>>

\* what a composite reads before its nested values: the size of a frame, the
\* discriminant of an Option, the count of a Vec or a map, the length of a
\* WithLen, nothing for a tuple
Prefix(t, framed) ==
    IF framed THEN read_exact(stream, 0, 8)
    ELSE CASE t.k = "option" -> read_u8(stream, 0)
           [] t.k \in {"vec", "btreemap", "hashmap", "withlen"} -> read_nat0(stream, 0)
           [] OTHER -> Ok(<<>>, 0)

\* the types of the values a composite reads one after another once its
\* prefix is head; a value takes at least one byte, so of a count beyond the
\* bytes of the stream only the first Len(stream) + 1 are ever asked for
Components(t, framed, head) ==
    LET count == IF SmallOrHuge(head.val) <= Len(stream)
                 THEN SmallOrHuge(head.val) ELSE Len(stream) + 1
    IN  IF framed THEN <<t>>
        ELSE CASE t.k = "option" -> IF head.val = 1 THEN <<t.a>> ELSE <<>>
               [] t.k = "vec" -> [i \in 1..count |-> t.a]
               [] IsMap(t) -> [i \in 1..(2 * count) |-> IF i % 2 = 1 THEN t.a ELSE t.b]
               [] t.k = "withlen" -> <<t.a>>
               [] t.k = "tuple" -> t.cs
               [] OTHER -> <<>>

\* the i-th nested read, made where the (i-1)-th ended
RECURSIVE Nested(_, _, _)
Nested(cs, p, i) ==
    IF i = 1 THEN binprot_read(cs[1], stream, p)
    ELSE LET prev == Nested(cs, p, i - 1)
         IN  IF prev.ok THEN binprot_read(cs[i], stream, prev.pos) ELSE prev

\* C9: when an Option, a Vec, a map, a tuple, a WithLen or a frame is decoded
\* and a nested binprot_read fails, the call fails with the error of the
\* first nested read that failed and the stream is where that read left it
\* (a map may have failed before on a repeated key); a Vec<T> that decodes
\* has exactly count elements, the values of the nested reads in order.
C9_FailurePropagates ==
    (ReadAsDone /\ peer \in {"raw", "size"}) =>
        LET framed == op = "read_with_size"
            head == Prefix(ty, framed)
            cs == IF head.ok THEN Components(ty, framed, head) ELSE <<>>
            r(i) == Nested(cs, head.pos, i)
            repeated(i) ==
                \E m \in 1..((i - 1) \div 2) : \E l \in 1..(m - 1) :
                    r(2 * m - 1).val = r(2 * l - 1).val
        IN  /\ \A i \in 1..Len(cs) :
                  (~r(i).ok /\ \A j \in 1..(i - 1) : r(j).ok) =>
                      IF ~framed /\ IsMap(ty) /\ repeated(i)
                      THEN ~res.ok /\ res.err = SameKeyAppearsTwiceInMap
                      ELSE ~res.ok /\ res.err = r(i).err /\ pos = r(i).pos
            /\ (~framed /\ ty.k = "vec" /\ res.ok) =>
                  /\ Len(res.val) = SmallOrHuge(head.val)
                  /\ \A j \in 1..Len(res.val) : res.val[j] = r(j).val

C9_Witness ==
    /\ RawRead /\ ty = TVec(TBool) /\ stream = <<2, 0, 2>>
    /\ ~res.ok /\ res.err = UnexpectedValueForBool(2) /\ pos = 3

\* C9, second witness: the second field of a tuple fails inside a frame
C9_TupleWitness ==
    /\ ReadAsDone /\ op = "read_with_size" /\ ty.k = "tuple"
    /\ Len(stream) = 10 /\ stream[9] = 0 /\ stream[10] = 1
    /\ ~res.ok /\ res.err = UnexpectedValueForUnit(1) /\ pos = 10

=============================================================================
